---- MODULE Spec2Model ----
(***************************************************************************)
(* Portal pulse: the particle phase engine (burst -> drift -> suck ->      *)
(* hold) of src/main.js, its uniforms, the resize handler and the frame    *)
(* loop.                                                                   *)
(*                                                                         *)
(* Numbers.  The shader computes in floats.  The model computes in fixed   *)
(* point: a real v is the integer v * Scale, so a world coordinate, a      *)
(* fraction in [0,1] and a time in seconds are all held in thousandths     *)
(* (a time is in milliseconds).  Every product and quotient rounds down.   *)
(***************************************************************************)
EXTENDS Integers, Sequences, FiniteSets, TLC

\* The fixed-point unit: 1.0 is Scale.
Scale == 1000

Min(a, b) == IF a < b THEN a ELSE b
Max(a, b) == IF a > b THEN a ELSE b
Abs(a) == IF a < 0 THEN -a ELSE a

\* a * b and a / b on fixed-point numbers (b a nonzero divisor).
Mul(a, b) == (a * b) \div Scale
Div(a, b) == (a * Scale) \div b

Vec2(a, b) == [x |-> a, y |-> b]
VAdd(p, q) == [x |-> p.x + q.x, y |-> p.y + q.y]
VSub(p, q) == [x |-> p.x - q.x, y |-> p.y - q.y]
VScale(p, k) == [x |-> Mul(p.x, k), y |-> Mul(p.y, k)]

(***************************************************************************)
(* GLSL built-ins.                                                         *)
(***************************************************************************)
clamp(x, lo, hi) == Min(Max(x, lo), hi)

\* mix(a, b, t) = a*(1-t) + b*t
mix(a, b, t) == Mul(a, Scale - t) + Mul(b, t)
VMix(p, q, t) == [x |-> mix(p.x, q.x, t), y |-> mix(p.y, q.y, t)]

\* fract(x) = x - floor(x)
fract(x) == x % Scale

RECURSIVE SqrtIter(_, _, _)
SqrtIter(n, lo, hi) ==
  IF lo >= hi THEN lo
  ELSE LET mid == (lo + hi + 1) \div 2
       IN  IF mid * mid <= n THEN SqrtIter(n, mid, hi)
                             ELSE SqrtIter(n, lo, mid - 1)

\* The integer square root of n >= 0 (46340^2 is the largest square below 2^31).
isqrt(n) == SqrtIter(n, 0, 46340)

\* length(v) = sqrt(v.x^2 + v.y^2)
length(v) == isqrt(v.x * v.x + v.y * v.y)

\* sin on [0, pi], by Bhaskara's rational approximation
\*   sin x ~ 16 x (pi - x) / (5 pi^2 - 4 x (pi - x)),
\* exact at 0, pi/6, pi/2, 5pi/6 and pi.
sinHalf(x) ==
  LET q == x * (3142 - x)
  IN  (16 * q) \div ((5 * 3142 * 3142 - 4 * q) \div Scale)

\* sin(x), x in thousandths of a radian; the period is 2 * 3142.
sin(x) ==
  LET r == x % 6284
  IN  IF r <= 3142 THEN sinHalf(r) ELSE -sinHalf(r - 3142)

cos(x) == sin(x + 1571)

\* smoothstep(e0, e1, x) for e0 < e1: Hermite interpolation of the clamped
\* parameter; the same formula read with e0 > e1 is the falling step.
smoothstep(e0, e1, x) ==
  LET t == clamp(((x - e0) * Scale) \div (e1 - e0), 0, Scale)
  IN  Mul(Mul(t, t), 3 * Scale - 2 * t)

(***************************************************************************)
(* The shader's helpers (vertex shader of dotsMat).                        *)
(***************************************************************************)
clamp01(x) == clamp(x, 0, Scale)

smooth01(t) == Mul(Mul(t, t), 3 * Scale - 2 * t)

\* pow(x, 3.0) and pow(x, 6.0), x >= 0
pow3(x) == Mul(Mul(x, x), x)
pow6(x) == pow3(Mul(x, x))

\* easeOutCubic with the ease taken of t, not of 1 - t
easeOutCubicOfT(t) == Scale - pow3(t)

easeOutCubic(t) == Scale - pow3(Scale - t)

easeInOutCubic(t) ==
  IF t < 500 THEN 4 * pow3(t) ELSE Scale - pow3(2 * Scale - 2 * t) \div 2

\* sin(n) * 43758.5453123
Spread(s) == s * 43758 + (s * 545) \div Scale

\* hash(n) = fract(sin(n) * 43758.5453123)
hash(n) == fract(Spread(sin(n)))

\* hash(aSeed * k), k given in tenths (91.7 is 917)
hashSeed(aSeed, k) == hash((aSeed * k) \div 10)

wobble(p, t) ==
  LET k  == 2 * Scale
      n1 == sin(Mul(p.y, k) + Mul(t, 1200)) + sin(Mul(Mul(p.x, k), 700) - Mul(t, 1100))
      n2 == sin(Mul(p.x, k) + t) - sin(Mul(Mul(p.y, k), 900) + Mul(t, 1300))
  IN  Vec2(n1, n2)

bezier(a, b, c, d, t) ==
  LET s  == Scale - t
      k0 == Mul(Mul(s, s), s)
      k1 == Mul(Mul(3 * s, s), t)
      k2 == Mul(Mul(3 * s, t), t)
      k3 == Mul(Mul(t, t), t)
  IN  VAdd(VAdd(VScale(a, k0), VScale(b, k1)), VAdd(VScale(c, k2), VScale(d, k3)))

(***************************************************************************)
(* What the GLSL ES specification leaves undefined.                        *)
(*                                                                         *)
(* smoothstep(e0, e1, x) with e0 >= e1 (the shader's nearFade) has an      *)
(* undefined result.  The specification describes smoothstep as "0 if      *)
(* x <= e0, 1 if x >= e1, Hermite interpolation between": a build that     *)
(* evaluates the formula gives the falling step, a build that tests one    *)
(* of the two ends first gives a hard step.  The variable glsl is the      *)
(* build's choice.                                                         *)
(*                                                                         *)
(* mod(x, 0) and normalize of the zero vector divide by zero: an IEEE      *)
(* build yields NaN (every later comparison is false), a build without     *)
(* NaN yields x - 0 * big = x.  Either may happen at each evaluation.      *)
(***************************************************************************)
SmoothstepBuilds == {"hermite", "lowFirst", "highFirst"}
ModZeroBuilds == {"nan", "passthrough"}

smoothstepRev(build, e0, e1, x) ==
  CASE build = "hermite"   -> smoothstep(e0, e1, x)
    [] build = "lowFirst"  -> IF x <= e0 THEN 0 ELSE Scale
    [] build = "highFirst" -> IF x >= e1 THEN Scale ELSE 0

\* normalize(v) once its length len is known to be positive
normalizeBy(v, len) == [x |-> (v.x * Scale) \div len, y |-> (v.y * Scale) \div len]

\* normalize(v); the zero vector gives 0/0, reported by the caller as NaN
normalize(v) ==
  LET len == length(v)
  IN  IF len = 0 THEN Vec2(0, 0) ELSE normalizeBy(v, len)

\* normalize(vec2(-radial.y, radial.x) + 1e-4).  1e-4 is a tenth of the
\* fixed-point unit: near the portal the vector is taken in units of 1e-4,
\* further out (beyond 3.0) the 1e-4 is below the unit and is dropped.
tangentOf(radial) ==
  IF Abs(radial.x) <= 3 * Scale /\ Abs(radial.y) <= 3 * Scale
  THEN LET v == Vec2(1 - 10 * radial.y, 10 * radial.x + 1)
       IN  normalizeBy(v, length(v))
  ELSE normalize(Vec2(-radial.y, radial.x))

(***************************************************************************)
(* The particles (createPortalPulseFX, DOTS).  Of the COUNT = 260          *)
(* particles the model keeps the first NumParticles; particle 0 has        *)
(* aSeed = hash11(0) = 0, so every hash of the shader is 0 for it.         *)
(***************************************************************************)
NumParticles == 3
Particles == 0 .. (NumParticles - 1)

\* hash11(x): s = sin(x * 127.1) * 43758.5453123; s - floor(s)
hash11(x) == fract(Spread(sin((x * 1271) \div 10)))

\* mix of the script: a * (1 - t) + b * t
jsMix(a, b, t) == Mul(a, Scale - t) + Mul(b, t)

\* aSeed[i] = r1 = hash11(i * 12.9898)
aSeed(i) == hash11((i * 129898) \div 10)

\* aEnergy[i] = mix(0.85, 1.15, r2), r2 = hash11(i * 78.233)
aEnergy(i) == jsMix(850, 1150, hash11(i * 78233))

(***************************************************************************)
(* The uniforms u, as createPortalPulseFX builds them for a view of        *)
(* viewW0 x viewH0.                                                        *)
(***************************************************************************)
viewH == 10 * Scale

InitialUniforms(viewW0, viewH0) ==
  [ uTime        |-> 0,
    uRes         |-> Vec2(viewW0, viewH0),
    uLeft        |-> Vec2(-Mul(viewW0, 380), 0),
    uRight       |-> Vec2(Mul(viewW0, 380), 0),
    uPortalR     |-> Mul(Min(viewH0, viewW0), 220),
    uBurstT      |-> 750,
    uDriftT      |-> 1100,
    uSuckT       |-> 4200,
    uHoldT       |-> 450,
    uRate        |-> 1000,
    uBand        |-> 3000,
    uBurstRadius |-> 3800,
    uSuckWide    |-> 2200,
    uDotGain     |-> 1150 ]

\* setView that leaves uPortalR as it was
setViewStaleRadius(un, w, h) ==
  [un EXCEPT !.uRes         = Vec2(w, h),
             !.uLeft        = Vec2(-Mul(w, 380), 0),
             !.uRight       = Vec2(Mul(w, 380), 0),
             !.uBurstRadius = Min(4400, Max(3200, Mul(w, 180))),
             !.uBand        = Max(2600, Min(3600, Mul(h, 300)))]

\* setView that moves the left anchor by -0.38 w instead of setting it
setViewShifting(un, w, h) ==
  [un EXCEPT !.uRes         = Vec2(w, h),
             !.uLeft        = Vec2(un.uLeft.x - Mul(w, 380), 0),
             !.uRight       = Vec2(Mul(w, 380), 0),
             !.uPortalR     = Mul(Min(h, w), 220),
             !.uBurstRadius = Min(4400, Max(3200, Mul(w, 180))),
             !.uBand        = Max(2600, Min(3600, Mul(h, 300)))]

\* setView(w, h): the uniforms after the call
setView(un, w, h) ==
  [un EXCEPT !.uRes         = Vec2(w, h),
             !.uLeft        = Vec2(-Mul(w, 380), 0),
             !.uRight       = Vec2(Mul(w, 380), 0),
             !.uPortalR     = Mul(Min(h, w), 220),
             !.uBurstRadius = Min(4400, Max(3200, Mul(w, 180))),
             !.uBand        = Max(2600, Min(3600, Mul(h, 300)))]

\* update that adds t to uTime instead of setting it
updateAccumulating(un, t) == [un EXCEPT !.uTime = un.uTime + t]

\* update(t): the uniforms after the call
update(un, t) == [un EXCEPT !.uTime = t]

(***************************************************************************)
(* The vertex shader's main(), for particle i under the uniforms un, on    *)
(* a build whose reversed smoothstep is ssBuild and whose mod by zero is    *)
(* mzBuild.  Its result is the record                                      *)
(*   phase, ph       the branch taken and the phase time                   *)
(*   p, alpha, sizeMul                                                     *)
(*   nan             a 0/0 or a NaN phase time reached p, alpha or sizeMul *)
(*   divZero         a division or a mod with a zero divisor was evaluated *)
(***************************************************************************)

\* a / b, and 0 in place of the undefined quotient when b = 0 (the caller
\* reports it in divZero)
Quot(a, b) == IF b = 0 THEN 0 ELSE Div(a, b)

\* GLOBAL PHASE with uHoldT left out of the cycle
GlobalPhaseNoHold(un, mzBuild) ==
  LET T     == Mul(un.uTime, un.uRate)
      cycle == un.uBurstT + un.uDriftT + un.uSuckT
  IN  [ ph       |-> IF cycle = 0 THEN T ELSE T % cycle,
        phNaN    |-> cycle = 0 /\ mzBuild = "nan",
        modZero  |-> cycle = 0,
        cycle    |-> cycle,
        burstEnd |-> un.uBurstT,
        driftEnd |-> un.uBurstT + un.uDriftT,
        suckEnd  |-> un.uBurstT + un.uDriftT + un.uSuckT ]

\* GLOBAL PHASE: T, cycle, ph = mod(T, cycle) and the three phase ends
GlobalPhase(un, mzBuild) ==
  LET T     == Mul(un.uTime, un.uRate)
      cycle == un.uBurstT + un.uDriftT + un.uSuckT + un.uHoldT
  IN  [ ph       |-> IF cycle = 0 THEN T ELSE T % cycle,
        phNaN    |-> cycle = 0 /\ mzBuild = "nan",
        modZero  |-> cycle = 0,
        cycle    |-> cycle,
        burstEnd |-> un.uBurstT,
        driftEnd |-> un.uBurstT + un.uDriftT,
        suckEnd  |-> un.uBurstT + un.uDriftT + un.uSuckT ]

\* the chain with <= in place of <
PhaseBranchInclusive(g) ==
  IF ~g.phNaN /\ g.ph <= g.burstEnd THEN "BURST"
  ELSE IF ~g.phNaN /\ g.ph <= g.driftEnd THEN "DRIFT"
  ELSE IF ~g.phNaN /\ g.ph <= g.suckEnd THEN "SUCK"
  ELSE "HOLD"

\* the if / else-if chain: a comparison with a NaN phase time is false
PhaseBranch(g) ==
  IF ~g.phNaN /\ g.ph < g.burstEnd THEN "BURST"
  ELSE IF ~g.phNaN /\ g.ph < g.driftEnd THEN "DRIFT"
  ELSE IF ~g.phNaN /\ g.ph < g.suckEnd THEN "SUCK"
  ELSE "HOLD"

\* radial direction, super tight spawn, scatter
Spawn(un, i) ==
  LET seed    == aSeed(i)
      ang     == Mul(hashSeed(seed, 917), 6283)
      dir     == Vec2(cos(ang), sin(ang))
      rad0    == Mul(pow6(hashSeed(seed, 373)), Mul(un.uPortalR, 35))
      rx      == hashSeed(seed, 2013) * 2 - Scale
      ry      == hashSeed(seed, 4137) * 2 - Scale
  IN  [ seed    |-> seed,
        energy  |-> aEnergy(i),
        dir     |-> dir,
        rad0    |-> rad0,
        packed  |-> VAdd(un.uLeft, VScale(dir, rad0)),
        scatter |-> VScale(Vec2(rx, ry), 550 + Mul(650, hashSeed(seed, 882))) ]

\* ---- BURST ----
Burst(un, sp, ph) ==
  LET t     == clamp01(Quot(ph, un.uBurstT))
      e     == easeOutCubic(t)
      r     == Mul(Mul(un.uBurstRadius, sp.energy), e)
      cloud == VScale(sp.scatter, 100 + Mul(550, e))
  IN  [ p       |-> VAdd(VAdd(sp.packed, VScale(sp.dir, r)), cloud),
        alpha   |-> Scale,
        sizeMul |-> Scale,
        nan     |-> FALSE,
        divZero |-> un.uBurstT = 0 ]

\* ---- DRIFT ----
Drift(un, sp, ph, burstEnd) ==
  LET t     == clamp01(Quot(ph - burstEnd, un.uDriftT))
      e     == smooth01(t)
      r     == Mul(un.uBurstRadius, sp.energy)
      base  == VAdd(VAdd(sp.packed, VScale(sp.dir, r)), VScale(sp.scatter, 650))
      w     == VScale(wobble(VScale(base, 550), un.uTime + sp.seed * 10), Mul(280, e))
      q     == VAdd(base, w)
      yBand == un.uBand
  IN  [ p       |-> Vec2(q.x, mix(q.y, clamp(q.y, -yBand, yBand), Mul(220, e))),
        alpha   |-> Scale,
        sizeMul |-> Scale,
        nan     |-> FALSE,
        divZero |-> un.uDriftT = 0 ]

\* SUCK: the starting cloud position, matched to the DRIFT endpoint
SuckStart(un, sp, tBoundary) ==
  LET r     == Mul(un.uBurstRadius, sp.energy)
      base  == VAdd(VAdd(sp.packed, VScale(sp.dir, r)), VScale(sp.scatter, 650))
      w     == VScale(wobble(VScale(base, 550), tBoundary + sp.seed * 10), 280)
      start == VAdd(base, w)
      yBand == un.uBand
  IN  Vec2(start.x, mix(start.y, clamp(start.y, -yBand, yBand), 220))

\* SUCK: the wide capture pull, then the curve into the portal, blended in
\* once the particle commits
SuckCurve(un, sp, start, tS, local) ==
  LET e        == easeInOutCubic(local)
      toR      == VSub(un.uRight, start)
      prePull  == smooth01(tS)
      pull     == VScale(VScale(VScale(normalize(toR), Mul(length(toR), 60)),
                                un.uSuckWide), prePull)
      capture  == VAdd(start, pull)
      a        == capture
      d        == un.uRight
      bend     == hashSeed(sp.seed, 3217) * 2 - Scale
      mid      == VScale(VAdd(a, d), 500)
      b        == VAdd(mid, Vec2(0, 1150 + Mul(550, bend)))
      c        == VAdd(mid, Vec2(0, -1050 - Mul(450, bend)))
      curvePos == bezier(a, b, c, d, e)
  IN  [ p   |-> VMix(capture, curvePos, smoothstep(0, 80, local)),
        nan |-> length(toR) = 0 ]

\* SUCK: the micro-spiral added to p
SuckSpiral(un, sp, p, tS, local) ==
  LET spin      == hashSeed(sp.seed, 7777) * 2 - Scale
      spiralIn  == smoothstep(60, 220, tS)
      commitIn  == smoothstep(20, 200, local)
      spiralOut == Scale - smoothstep(600, Scale, local)
      spiralAmt == Mul(Mul(Mul(220, spiralIn), commitIn), spiralOut)
      radial    == VSub(un.uRight, p)
      tangent   == tangentOf(radial)
  IN  VAdd(p, VScale(VScale(tangent, spiralAmt), spin))

\* SUCK with the near-portal fade subtracted from the opacity, not multiplied
SuckSubtractingFade(un, sp, ph, driftEnd, ssBuild) ==
  LET tS        == clamp01(Quot(ph - driftEnd, un.uSuckT))
      tBoundary == un.uTime - Div(ph - driftEnd, Max(1, un.uRate))
      delay     == 50 + Mul(550, hashSeed(sp.seed, 9991))
      local     == clamp01(Div(tS - delay, Max(1, Scale - delay)))
      start     == SuckStart(un, sp, tBoundary)
      curve     == SuckCurve(un, sp, start, tS, local)
      p         == SuckSpiral(un, sp, curve.p, tS, local)
      fade      == Scale - smoothstep(350, 800, local)
      distToPortal == length(VSub(p, un.uRight))
      nearFade  == smoothstepRev(ssBuild, 700, 80, distToPortal)
      shrink    == smoothstep(180, 850, distToPortal)
  IN  [ p       |-> p,
        alpha   |-> fade - Mul(920, nearFade),
        sizeMul |-> mix(200, Scale, shrink),
        nan     |-> curve.nan,
        divZero |-> un.uSuckT = 0 \/ curve.nan ]

\* ---- SUCK (random absorption, anti-blob) ----
Suck(un, sp, ph, driftEnd, ssBuild) ==
  LET tS        == clamp01(Quot(ph - driftEnd, un.uSuckT))
      tBoundary == un.uTime - Div(ph - driftEnd, Max(1, un.uRate))
      delay     == 50 + Mul(550, hashSeed(sp.seed, 9991))
      local     == clamp01(Div(tS - delay, Max(1, Scale - delay)))
      start     == SuckStart(un, sp, tBoundary)
      curve     == SuckCurve(un, sp, start, tS, local)
      p         == SuckSpiral(un, sp, curve.p, tS, local)
      fade      == Scale - smoothstep(350, 800, local)
      distToPortal == length(VSub(p, un.uRight))
      nearFade  == smoothstepRev(ssBuild, 700, 80, distToPortal)
      shrink    == smoothstep(180, 850, distToPortal)
  IN  [ p       |-> p,
        alpha   |-> Mul(fade, Scale - Mul(920, nearFade)),
        sizeMul |-> mix(200, Scale, shrink),
        nan     |-> curve.nan,
        divZero |-> un.uSuckT = 0 \/ curve.nan ]

\* HOLD that leaves the size multiplier at 1
HoldKeepingSize(un) ==
  [ p       |-> un.uRight,
    alpha   |-> 0,
    sizeMul |-> Scale,
    nan     |-> FALSE,
    divZero |-> FALSE ]

\* ---- HOLD ----
Hold(un) ==
  [ p       |-> un.uRight,
    alpha   |-> 0,
    sizeMul |-> 0,
    nan     |-> FALSE,
    divZero |-> FALSE ]

\* main(): vAlpha, the size multiplier and the position of particle i
main(un, i, ssBuild, mzBuild) ==
  LET g      == GlobalPhase(un, mzBuild)
      sp     == Spawn(un, i)
      phase  == PhaseBranch(g)
      body   == CASE phase = "BURST" -> Burst(un, sp, g.ph)
                  [] phase = "DRIFT" -> Drift(un, sp, g.ph, g.burstEnd)
                  [] phase = "SUCK"  -> Suck(un, sp, g.ph, g.driftEnd, ssBuild)
                  [] phase = "HOLD"  -> Hold(un)
  IN  [ phase   |-> phase,
        p       |-> body.p,
        alpha   |-> body.alpha,
        sizeMul |-> body.sizeMul,
        nan     |-> body.nan,
        divZero |-> g.modZero \/ body.divZero,
        ph      |-> g.ph,
        phNaN   |-> g.phNaN ]

(***************************************************************************)
(* The page: one thread, every handler runs to completion.                 *)
(*   u             the uniforms shared by the two materials                *)
(*   viewW         the script's viewW                                      *)
(*   camera        the orthographic camera's frustum                       *)
(*   rendererSize  the size last given to renderer.setSize                 *)
(*   clock         the elapsed time the clock last returned (ms)           *)
(*   timers        the pending onResize timeouts, by delay                 *)
(*   pc            "load" while the script's top level runs, then          *)
(*                 "running"                                               *)
(*   frame         the last frame rendered: the uniforms and viewW it      *)
(*                 read, and main()'s result per particle                  *)
(*   glsl          what the build does where GLSL leaves it undefined      *)
(***************************************************************************)
VARIABLES u, viewW, camera, rendererSize, clock, timers, pc, frame, glsl

vars == <<u, viewW, camera, rendererSize, clock, timers, pc, frame, glsl>>

\* The sizes (clientWidth, clientHeight) the canvas takes.
Sizes == {<<800, 600>>, <<1600, 1200>>, <<390, 844>>}

\* The clock advances between two frames by one of these (ms).
FrameSteps == {25, 425}

\* The clock is followed up to MaxTime (ms): one cycle and the start of the next.
MaxTime == 6600

\* An orientationchange is followed while fewer than MaxPendingPasses of the
\* 250 ms passes are pending.
MaxPendingPasses == 1

NoFrame == [rendered |-> FALSE]

\* viewH * (width / height)
ViewWidth(width, height) == Mul(viewH, Div(width, height))

\* renderer.render(scene, camera): the vertex shader runs for every particle
render(un, w, mzBuild) ==
  [ rendered |-> TRUE,
    un       |-> un,
    viewW    |-> w,
    out      |-> [i \in Particles |-> main(un, i, glsl, mzBuild)] ]

\* The outcomes of mod(T, cycle) under the uniforms un: one when cycle > 0
ModOutcomes(un) ==
  IF un.uBurstT + un.uDriftT + un.uSuckT + un.uHoldT = 0 THEN ModZeroBuilds ELSE {"nan"}

Init ==
  /\ pc = "load"
  /\ glsl \in SmoothstepBuilds
  /\ \E sz \in Sizes : viewW = ViewWidth(sz[1], sz[2])
  /\ u = InitialUniforms(viewW, viewH)
  /\ camera = [left |-> -Scale, right |-> Scale, top |-> Scale, bottom |-> -Scale]
  /\ rendererSize = <<300, 150>>
  /\ clock = 0
  /\ timers = [d \in {50, 250} |-> 0]
  /\ frame = NoFrame

\* resizeToDisplaySize() with the canvas at sz: the new viewW, camera,
\* renderer size and uniforms
resizeToDisplaySize(sz) ==
  LET width  == sz[1]
      height == sz[2]
      w      == ViewWidth(width, height)
  IN  /\ rendererSize' = <<width, height>>
      /\ viewW' = w
      /\ camera' = [left   |-> -(w \div 2),     right  |-> w \div 2,
                    top    |-> viewH \div 2,    bottom |-> -(viewH \div 2)]
      /\ u' = setView(u, w, viewH)

\* The script's top level: onResize(), then the first animate(), whose
\* clock.getElapsedTime() starts the clock and returns 0.
Load(sz) ==
  /\ pc = "load"
  /\ pc' = "running"
  /\ rendererSize' = <<sz[1], sz[2]>>
  /\ viewW' = ViewWidth(sz[1], sz[2])
  /\ camera' = [left   |-> -(viewW' \div 2),  right  |-> viewW' \div 2,
                top    |-> viewH \div 2,      bottom |-> -(viewH \div 2)]
  /\ u' = update(setView(u, viewW', viewH), 0)
  /\ \E mz \in ModOutcomes(u') : frame' = render(u', viewW', mz)
  /\ UNCHANGED <<clock, timers, glsl>>

\* window "resize": onResize()
OnResize(sz) ==
  /\ pc = "running"
  /\ resizeToDisplaySize(sz)
  /\ UNCHANGED <<clock, timers, pc, frame, glsl>>

\* window "orientationchange": setTimeout(onResize, 50); setTimeout(onResize, 250)
OrientationChange ==
  /\ pc = "running"
  /\ timers[250] < MaxPendingPasses
  /\ timers' = [d \in {50, 250} |-> timers[d] + 1]
  /\ UNCHANGED <<u, viewW, camera, rendererSize, clock, pc, frame, glsl>>

\* A timeout fires: onResize().  An event's 250 ms pass follows its 50 ms pass.
TimerFire(d, sz) ==
  /\ pc = "running"
  /\ timers[d] > 0
  /\ d = 250 => timers[250] > timers[50]
  /\ timers' = [timers EXCEPT ![d] = @ - 1]
  /\ resizeToDisplaySize(sz)
  /\ UNCHANGED <<clock, pc, frame, glsl>>

\* animate(): fx.update(clock.getElapsedTime()); renderer.render(scene, camera)
Animate(dt) ==
  /\ pc = "running"
  /\ clock + dt <= MaxTime
  /\ clock' = clock + dt
  /\ u' = update(u, clock')
  /\ \E mz \in ModOutcomes(u') : frame' = render(u', viewW, mz)
  /\ UNCHANGED <<viewW, camera, rendererSize, timers, pc, glsl>>

Next ==
  \/ \E sz \in Sizes : Load(sz)
  \/ \E sz \in Sizes : OnResize(sz)
  \/ OrientationChange
  \/ \E d \in {50, 250}, sz \in Sizes : TimerFire(d, sz)
  \/ \E dt \in FrameSteps : Animate(dt)

Spec == Init /\ [][Next]_vars

(***************************************************************************)
(* The engine under a configuration: the four durations are uniforms, and  *)
(* a configuration may set any of them to zero.  SpecCfg starts from the   *)
(* running page with each duration either zero or its default and renders *)
(* frames.                                                                 *)
(***************************************************************************)
CfgSteps == {1000, 1375}

InitCfg ==
  /\ pc = "running"
  /\ glsl \in SmoothstepBuilds
  /\ viewW = ViewWidth(800, 600)
  /\ \E b \in {0, 750}, d \in {0, 1100}, k \in {0, 4200}, h \in {0, 450} :
        u = [setView(InitialUniforms(viewW, viewH), viewW, viewH)
               EXCEPT !.uBurstT = b, !.uDriftT = d, !.uSuckT = k, !.uHoldT = h]
  /\ camera = [left   |-> -(viewW \div 2),  right  |-> viewW \div 2,
               top    |-> viewH \div 2,     bottom |-> -(viewH \div 2)]
  /\ rendererSize = <<800, 600>>
  /\ clock = 0
  /\ timers = [d \in {50, 250} |-> 0]
  /\ frame = NoFrame

NextCfg == \E dt \in CfgSteps : Animate(dt)

SpecCfg == InitCfg /\ [][NextCfg]_vars

(***************************************************************************)
(* Properties.                                                             *)
(***************************************************************************)
Phases == {"BURST", "DRIFT", "SUCK", "HOLD"}

\* the frame's phase time and branch (the same for every particle)
FramePh == frame.out[0].ph
FramePhase == frame.out[0].phase

Cycle(un) == un.uBurstT + un.uDriftT + un.uSuckT + un.uHoldT

\* the half-open interval of phase name under the uniforms un
Interval(name, un) ==
  CASE name = "BURST" -> [lo |-> 0, hi |-> un.uBurstT]
    [] name = "DRIFT" -> [lo |-> un.uBurstT, hi |-> un.uBurstT + un.uDriftT]
    [] name = "SUCK"  -> [lo |-> un.uBurstT + un.uDriftT,
                          hi |-> un.uBurstT + un.uDriftT + un.uSuckT]
    [] name = "HOLD"  -> [lo |-> un.uBurstT + un.uDriftT + un.uSuckT, hi |-> Cycle(un)]

InInterval(x, name, un) == Interval(name, un).lo <= x /\ x < Interval(name, un).hi

PositiveDurations(un) ==
  un.uBurstT > 0 /\ un.uDriftT > 0 /\ un.uSuckT > 0 /\ un.uHoldT > 0

\* C1: in every rendered frame, for every particle, the phase time
\* ph = (uTime * uRate) mod cycle lies in [0, cycle), exactly one of the four
\* half-open intervals BURST, DRIFT, SUCK, HOLD contains it, and the branch
\* the shader took is that one.
PhasePartition ==
  (frame.rendered /\ PositiveDurations(frame.un)) =>
    \A i \in Particles :
      LET o == frame.out[i]
      IN  /\ ~o.phNaN
          /\ o.ph = Mul(frame.un.uTime, frame.un.uRate) % Cycle(frame.un)
          /\ 0 <= o.ph /\ o.ph < Cycle(frame.un)
          /\ Cardinality({n \in Phases : InInterval(o.ph, n, frame.un)}) = 1
          /\ InInterval(o.ph, o.phase, frame.un)

\* a frame exactly where one interval ends and the next begins: the clock
\* reads 1.85 s, the first instant of SUCK
PhasePartitionWitness ==
  frame.rendered /\ frame.un.uTime = 1850 /\ FramePhase = "SUCK"

\* C2: in every rendered frame, in every phase, every particle's opacity and
\* size multiplier are numbers in [0, 1].
OpacityAndSizeBounded ==
  frame.rendered =>
    \A i \in Particles :
      LET o == frame.out[i]
      IN  /\ ~o.nan
          /\ 0 <= o.alpha /\ o.alpha <= Scale
          /\ 0 <= o.sizeMul /\ o.sizeMul <= Scale

\* a SUCK frame in which a particle is part faded and part shrunk
OpacityAndSizeBoundedWitness ==
  /\ frame.rendered
  /\ FramePhase = "SUCK"
  /\ \E i \in Particles :
        /\ 0 < frame.out[i].alpha /\ frame.out[i].alpha < Scale
        /\ 200 < frame.out[i].sizeMul /\ frame.out[i].sizeMul < Scale

\* C3: a frame whose phase time lies in the HOLD interval [suckEnd, cycle)
\* has every particle exactly at the right anchor, with opacity 0 and size
\* multiplier 0, whatever view the resize handler has set.
HoldPinned ==
  (frame.rendered /\ InInterval(FramePh, "HOLD", frame.un)) =>
    \A i \in Particles :
      /\ frame.out[i].p = frame.un.uRight
      /\ frame.out[i].p = Vec2(Mul(frame.viewW, 380), 0)
      /\ frame.out[i].alpha = 0
      /\ frame.out[i].sizeMul = 0

\* the frame at burst + drift + suck + hold / 2 = 6.275 s, on the portrait view
HoldPinnedWitness ==
  /\ frame.rendered
  /\ frame.un.uTime = 750 + 1100 + 4200 + 225
  /\ frame.viewW = ViewWidth(390, 844)

SameOutput(o, body) ==
  o.p = body.p /\ o.alpha = body.alpha /\ o.sizeMul = body.sizeMul

Dist2(p, q) == (p.x - q.x) * (p.x - q.x) + (p.y - q.y) * (p.y - q.y)

\* C5 as stated: at time 0 every particle is in BURST with opacity 1, within
\* the maximum spawn offset portalRadius * 0.035 of the left anchor.
SpawnWithinSpawnRadius ==
  (frame.rendered /\ frame.un.uTime = 0) =>
    \A i \in Particles :
      LET o   == frame.out[i]
          tol == Mul(frame.un.uPortalR, 35)
      IN  /\ o.phase = "BURST"
          /\ o.alpha = Scale
          /\ Dist2(o.p, frame.un.uLeft) <= tol * tol

\* C5, amended: at time 0 every particle is in BURST with opacity 1, and each
\* coordinate of its position is within portalRadius * 0.035 (the spawn
\* offset) plus 0.12 (the initial scatter cloud, 0.10 * scatter) of the left
\* anchor.
SpawnWithinSpawnAndScatter ==
  (frame.rendered /\ frame.un.uTime = 0) =>
    \A i \in Particles :
      LET o   == frame.out[i]
          tol == Mul(frame.un.uPortalR, 35) + 120
      IN  /\ o.phase = "BURST"
          /\ o.alpha = Scale
          /\ Abs(o.p.x - frame.un.uLeft.x) <= tol
          /\ Abs(o.p.y - frame.un.uLeft.y) <= tol

\* the first frame, on the portrait view, with a particle off the left anchor
SpawnWitness ==
  /\ frame.rendered
  /\ frame.un.uTime = 0
  /\ frame.viewW = ViewWidth(390, 844)
  /\ \E i \in Particles : frame.out[i].p # frame.un.uLeft

\* the uniforms built from nothing but a view width and a time
FromScratch(w, t) == update(setView(InitialUniforms(w, viewH), w, viewH), t)

\* C6: the last frame is what the shader yields from the time last passed to
\* update, the particles' attributes and the current view alone: the calls
\* of update and setView before them leave no trace in it.
FrameDependsOnTimeAndViewOnly ==
  frame.rendered =>
    /\ frame.un = FromScratch(frame.viewW, clock)
    /\ frame.out = [i \in Particles |-> main(FromScratch(frame.viewW, clock), i, glsl, "nan")]

\* a SUCK frame at 2.125 s, a time several runs of frames reach, on a view
\* that a resize pass set after an earlier frame on another view
FrameDependsOnTimeAndViewOnlyWitness ==
  /\ frame.rendered
  /\ clock = 2125
  /\ timers[50] = 0 /\ timers[250] = 1
  /\ frame.viewW = ViewWidth(390, 844)
  /\ rendererSize = <<390, 844>>

\* the view geometry of the uniforms un is the one derived from (w, viewH)
DerivedFrom(un, w) ==
  /\ un.uRes = Vec2(w, viewH)
  /\ un.uLeft = Vec2(-Mul(w, 380), 0)
  /\ un.uRight = Vec2(Mul(w, 380), 0)
  /\ un.uPortalR = Mul(Min(w, viewH), 220)

\* C7: whatever the interleaving of resize events, timeout passes and frames,
\* the uniforms a frame reads, and the uniforms between handlers, hold
\* anchors and a radius derived from the one (w, h) last given to setView.
FrameReadsOneView ==
  /\ frame.rendered => DerivedFrom(frame.un, frame.viewW)
  /\ pc = "running" => DerivedFrom(u, viewW)

\* a frame rendered between the two timeout passes of an orientation change,
\* on the view the first pass set
FrameReadsOneViewWitness ==
  /\ frame.rendered
  /\ clock > 0
  /\ timers[50] = 0 /\ timers[250] = 1
  /\ rendererSize = <<1600, 1200>>
  /\ frame.viewW = viewW

\* C8: a run of the resize handler with the size it was last run with leaves
\* the renderer size, viewW, the camera and every uniform as they were.
ResizeIdempotent ==
  [][\A sz \in Sizes :
       (rendererSize = sz /\ (OnResize(sz) \/ \E d \in {50, 250} : TimerFire(d, sz)))
         => (u' = u /\ viewW' = viewW /\ camera' = camera /\ rendererSize' = rendererSize)]_vars

\* after the 50 ms pass ran on the portrait size, with the 250 ms pass pending
ResizeIdempotentWitness ==
  /\ frame.rendered /\ frame.viewW # viewW
  /\ timers[50] = 0 /\ timers[250] = 1
  /\ rendererSize = <<390, 844>>
  /\ DerivedFrom(u, ViewWidth(390, 844))

NextPhase(name) ==
  CASE name = "BURST" -> "DRIFT"
    [] name = "DRIFT" -> "SUCK"
    [] name = "SUCK"  -> "HOLD"
    [] name = "HOLD"  -> "BURST"

ShortestPhase(un) == Min(Min(un.uBurstT, un.uDriftT), Min(un.uSuckT, un.uHoldT))

\* C10: when the clock advances between two successive frames by less (in
\* effective time) than the shortest phase lasts, the second frame is in the
\* phase of the first or in the next one of BURST -> DRIFT -> SUCK -> HOLD ->
\* BURST.
PhaseOrder ==
  [][(/\ frame.rendered /\ frame'.rendered
      /\ clock' > clock
      /\ u.uRate > 0
      /\ Mul(clock' - clock, u.uRate) < ShortestPhase(u))
       => (frame'.out[0].phase \in {FramePhase, NextPhase(FramePhase)})]_vars

\* a BURST frame of the second cycle, after the HOLD of the first
PhaseOrderWitness ==
  frame.rendered /\ clock > 6500 /\ FramePhase = "BURST"

====
